---- MODULE Spec2Model ----
(***************************************************************************)
(* laa-tool.py: inspect or toggle the Large Address Awareness bit of a     *)
(* 32-bit PE executable.                                                   *)
(*                                                                         *)
(* A file is a length and the bytes of it that are not zero (every finite  *)
(* file has finitely many of them), so an image with a header at a large   *)
(* offset is as cheap as a small one.  A handle is an open mode and a file *)
(* position; each read, seek and write of the code is a step on an I/O     *)
(* context that carries the file, the handle and the counts of the I/O     *)
(* calls issued so far.                                                    *)
(***************************************************************************)
EXTENDS Integers, Sequences, FiniteSets, TLC

VARIABLES
    file,     \* the executable on disk: [exists, len, nz]
    fdobj,    \* the library caller's handle: [mode, pos]
    last,     \* the last library call: what it was given and what it produced
    args,     \* the command line: [set, unset]
    pc,       \* where the command-line run is
    mainfd,   \* the command-line run's handle: [open, mode, pos]
    flagbyte, \* main's flagbyte
    laaset,   \* main's laaset
    opens,    \* the modes the command-line run opened the file in, in order
    io,       \* the I/O calls the command-line run issued: [seeks, reads, writes]
    out,      \* what the command-line run printed
    exitcode, \* the process's exit status, -1 while it runs
    file0     \* the file as it was when the command-line run started

vars == <<file, fdobj, last, args, pc, mainfd, flagbyte, laaset,
          opens, io, out, exitcode, file0>>

libvars == <<file, fdobj, last>>
clivars == <<args, pc, mainfd, flagbyte, laaset, opens, io, out, exitcode, file0>>

---------------------------------------------------------------------------
(* Program constants *)

LAA == 32

MZ == 23117

PE == 17744

position_PE_location == 60

offset_LAA_from_PE == 22

---------------------------------------------------------------------------
(* Bounds *)

\* The caller of the library may leave the handle at any position 0..MaxSeek
\* before a call, besides the positions the calls themselves leave it at.
MaxSeek == 1

\* A file image may carry up to MaxPad bytes beyond the flag byte.
MaxPad == 1

---------------------------------------------------------------------------
(* Bytes and bits *)

Min(a, b) == IF a < b THEN a ELSE b

Max(a, b) == IF a > b THEN a ELSE b

RECURSIVE BitOp(_, _, _, _)
\* Bitwise operation on the low n bits of a and b; xor when isXor, else and.
BitOp(a, b, n, isXor) ==
    IF n = 0 THEN 0
    ELSE LET x == a % 2
             y == b % 2
             bit == IF isXor THEN (x + y) % 2 ELSE x * y
         IN bit + 2 * BitOp(a \div 2, b \div 2, n - 1, isXor)

BitAnd(a, b) == BitOp(a, b, 8, FALSE)

BitXor(a, b) == BitOp(a, b, 8, TRUE)

---------------------------------------------------------------------------
(* The file: open(), seek(), read(), write() of an unbuffered binary file *)

ByteAt(f, p) == IF p \in DOMAIN f.nz THEN f.nz[p] ELSE 0

\* read(n) at position pos: the bytes up to end-of-file, none at or past it.
FileRead(f, pos, n) ==
    LET k == IF pos >= f.len THEN 0 ELSE Min(n, f.len - pos)
    IN [i \in 1..k |-> ByteAt(f, pos + i - 1)]

\* write(buf) at position pos: replaces the bytes there, extends the file
\* (a gap reads as zeros) when it reaches past the end.
FileWrite(f, pos, buf) ==
    LET span == {pos + i - 1 : i \in 1..Len(buf)}
        keep == (DOMAIN f.nz) \ span
        put  == {p \in span : buf[p - pos + 1] # 0}
    IN [f EXCEPT !.len = Max(f.len, pos + Len(buf)),
                 !.nz = [p \in keep \cup put |->
                            IF p \in span THEN buf[p - pos + 1] ELSE f.nz[p]]]

Ctx(f, mode, pos) ==
    [file |-> f, mode |-> mode, pos |-> pos, seeks |-> 0, reads |-> 0, writes |-> 0]

seek(c, p) == [c EXCEPT !.pos = p, !.seeks = @ + 1]

read(c, n) ==
    LET buf == FileRead(c.file, c.pos, n)
    IN [buf |-> buf, c |-> [c EXCEPT !.pos = @ + Len(buf), !.reads = @ + 1]]

\* A handle opened 'rb' refuses the write (io.UnsupportedOperation) before any
\* byte reaches the file.
write(c, buf) ==
    IF c.mode = "rb"
    THEN [exc |-> "UnsupportedOperation", c |-> c]
    ELSE [exc |-> "none",
          c |-> [c EXCEPT !.file = FileWrite(c.file, c.pos, buf),
                          !.pos = @ + Len(buf),
                          !.writes = @ + 1]]

---------------------------------------------------------------------------
(* Results: a value, or the exception raised *)

\* A call that returns carries its value; one that raises carries none.
Return(v, c) == [exc |-> "none", msg |-> "", val |-> v, c |-> c]

Raise(e, m, c) == [exc |-> e, msg |-> m, c |-> c]

---------------------------------------------------------------------------
(* The codec *)

\* bytes2word without its length check: the bytes that were read, as a number.
bytes2wordUnchecked(bytebuffer) ==
    [exc |-> "none", msg |-> "",
     val |-> (IF Len(bytebuffer) >= 1 THEN bytebuffer[1] ELSE 0)
             + 256 * (IF Len(bytebuffer) >= 2 THEN bytebuffer[2] ELSE 0)]

bytes2word(bytebuffer) ==
    IF Len(bytebuffer) # 2
    THEN [exc |-> "EChunkSize", msg |-> "word expected"]
    ELSE [exc |-> "none", msg |-> "",
          val |-> bytebuffer[1] + 256 * bytebuffer[2]]

bytes2byte(bytebuffer) ==
    IF Len(bytebuffer) # 1
    THEN [exc |-> "EChunkSize", msg |-> "byte expected"]
    ELSE [exc |-> "none", msg |-> "", val |-> bytebuffer[1]]

byte2bytes(bite) ==
    IF bite < 0 \/ bite > 255
    THEN [exc |-> "ERange", msg |-> "Number out of range"]
    ELSE [exc |-> "none", msg |-> "", val |-> <<bite>>]

---------------------------------------------------------------------------
(* The header locator and the flag accessor *)

\* getLAAPosition without the MZ check.
getLAAPositionNoMZCheck(c0) ==
    LET r1   == read(seek(c0, 0), 2)
        flag == bytes2word(r1.buf)
    IN IF flag.exc # "none" THEN Raise(flag.exc, flag.msg, r1.c)
       ELSE
       LET r2    == read(seek(r1.c, position_PE_location), 2)
           peoff == bytes2word(r2.buf)
       IN IF peoff.exc # "none" THEN Raise(peoff.exc, peoff.msg, r2.c)
          ELSE
          LET r3    == read(seek(r2.c, peoff.val), 2)
              flag2 == bytes2word(r3.buf)
          IN IF flag2.exc # "none" THEN Raise(flag2.exc, flag2.msg, r3.c)
             ELSE IF flag2.val # PE
             THEN Raise("ENotExecutable", "not a valid PE file", r3.c)
             ELSE Return(peoff.val + offset_LAA_from_PE, r3.c)

\* Locates the LAA flag byte and returns it as a seek index.
getLAAPosition(c0) ==
    LET r1   == read(seek(c0, 0), 2)
        flag == bytes2word(r1.buf)
    IN IF flag.exc # "none" THEN Raise(flag.exc, flag.msg, r1.c)
       ELSE IF flag.val # MZ
       THEN Raise("ENotExecutable", "not a valid executable", r1.c)
       ELSE
       LET r2    == read(seek(r1.c, position_PE_location), 2)
           peoff == bytes2word(r2.buf)
       IN IF peoff.exc # "none" THEN Raise(peoff.exc, peoff.msg, r2.c)
          ELSE
          LET r3    == read(seek(r2.c, peoff.val), 2)
              flag2 == bytes2word(r3.buf)
          IN IF flag2.exc # "none" THEN Raise(flag2.exc, flag2.msg, r3.c)
             ELSE IF flag2.val # PE
             THEN Raise("ENotExecutable", "not a valid PE file", r3.c)
             ELSE Return(peoff.val + offset_LAA_from_PE, r3.c)

\* Returns the integer value of the LAA flag byte.
getLAAFlagByte(c0) ==
    LET laapos == getLAAPosition(c0)
    IN IF laapos.exc # "none" THEN laapos
       ELSE
       LET r  == read(seek(laapos.c, laapos.val), 1)
           fb == bytes2byte(r.buf)
       IN IF fb.exc # "none" THEN Raise(fb.exc, fb.msg, r.c)
          ELSE Return(fb.val, r.c)

\* getLAAStatus with the mask test replaced by a test for any bit.
getLAAStatusAnyBit(c0) ==
    LET fb == getLAAFlagByte(c0)
    IN IF fb.exc # "none" THEN fb
       ELSE Return(fb.val # 0, fb.c)

\* Returns TRUE/FALSE according to whether the flag is set/unset.
getLAAStatus(c0) ==
    LET flagbyte0 == getLAAFlagByte(c0)
    IN IF flagbyte0.exc # "none" THEN flagbyte0
       ELSE Return(BitAnd(flagbyte0.val, LAA) = LAA, flagbyte0.c)

\* toggleLAAStatus without the seek of line 170: the write lands where the read
\* of the flag byte left the handle.
toggleLAAStatusNoSeekBack(c0) ==
    LET laapos == getLAAPosition(c0)
    IN IF laapos.exc # "none" THEN laapos
       ELSE
       LET r       == read(seek(laapos.c, laapos.val), 1)
           orgbyte == bytes2byte(r.buf)
       IN IF orgbyte.exc # "none" THEN Raise(orgbyte.exc, orgbyte.msg, r.c)
          ELSE
          LET w == write(r.c, byte2bytes(BitXor(orgbyte.val, LAA)).val)
          IN IF w.exc # "none" THEN Raise(w.exc, "not writable", w.c)
             ELSE Return("None", w.c)

\* toggleLAAStatus that ors the mask in instead of xoring it.
toggleLAAStatusOr(c0) ==
    LET laapos == getLAAPosition(c0)
    IN IF laapos.exc # "none" THEN laapos
       ELSE
       LET r       == read(seek(laapos.c, laapos.val), 1)
           orgbyte == bytes2byte(r.buf)
       IN IF orgbyte.exc # "none" THEN Raise(orgbyte.exc, orgbyte.msg, r.c)
          ELSE
          LET modbyte == orgbyte.val + LAA - BitAnd(orgbyte.val, LAA)
              w == write(seek(r.c, laapos.val), byte2bytes(modbyte).val)
          IN IF w.exc # "none" THEN Raise(w.exc, "not writable", w.c)
             ELSE Return("None", w.c)

\* toggleLAAStatus that takes the header offset word as it is, patches the byte
\* and checks the signatures only after.
toggleLAAStatusLateCheck(c0) ==
    LET r2    == read(seek(c0, position_PE_location), 2)
        peoff == bytes2word(r2.buf)
    IN IF peoff.exc # "none" THEN Raise(peoff.exc, peoff.msg, r2.c)
       ELSE
       LET laapos  == peoff.val + offset_LAA_from_PE
           r       == read(seek(r2.c, laapos), 1)
           orgbyte == bytes2byte(r.buf)
       IN IF orgbyte.exc # "none" THEN Raise(orgbyte.exc, orgbyte.msg, r.c)
          ELSE
          LET w == write(seek(r.c, laapos), byte2bytes(BitXor(orgbyte.val, LAA)).val)
          IN IF w.exc # "none" THEN Raise(w.exc, "not writable", w.c)
             ELSE LET chk == getLAAPosition(w.c)
                  IN IF chk.exc # "none" THEN chk ELSE Return("None", chk.c)

\* Toggles the LAA bit in the flag byte.  It returns nothing ("None").
toggleLAAStatus(c0) ==
    LET laapos == getLAAPosition(c0)
    IN IF laapos.exc # "none" THEN laapos
       ELSE
       LET r       == read(seek(laapos.c, laapos.val), 1)
           orgbyte == bytes2byte(r.buf)
       IN IF orgbyte.exc # "none" THEN Raise(orgbyte.exc, orgbyte.msg, r.c)
          ELSE
          LET modbyte == BitXor(orgbyte.val, LAA)
              wrbuf   == byte2bytes(modbyte)
          IN IF wrbuf.exc # "none" THEN Raise(wrbuf.exc, wrbuf.msg, r.c)
             ELSE
             LET w == write(seek(r.c, laapos.val), wrbuf.val)
             IN IF w.exc # "none" THEN Raise(w.exc, "not writable", w.c)
                ELSE Return("None", w.c)

---------------------------------------------------------------------------
(* File images the runs start from *)

\* The n bytes of v, little-endian.
LE(v, n) == [i \in 1..n |-> (v \div (256 ^ (i - 1))) % 256]

EmptyFile == [exists |-> TRUE, len |-> 0, nz |-> [p \in {} |-> 0]]

NoFile == [exists |-> FALSE, len |-> 0, nz |-> [p \in {} |-> 0]]

Truncate(f, n) ==
    IF n >= f.len THEN f
    ELSE [f EXCEPT !.len = n,
                   !.nz = [p \in {q \in DOMAIN f.nz : q < n} |-> f.nz[p]]]

\* A PE header at offset h: the signature word sig, two zero bytes, and the
\* characteristics byte flag at h + 22, followed by pad bytes.
PutHeader(f, h, sig, flag, pad) ==
    LET f1 == FileWrite(f, h, LE(sig, 2) \o <<0, 0>>)
        f2 == FileWrite(f1, h + offset_LAA_from_PE, <<flag>>)
    IN FileWrite(f2, h + offset_LAA_from_PE + 1, [i \in 1..pad |-> 0])

\* An image: the word mz at 0, the 32-bit lfanew at 0x3C, a PE header at the
\* low 16 bits of lfanew when lo and one at lfanew itself when hi.  The DOS
\* header fields are written last: where a header overlaps them, they win.
Image(mz, lfanew, lo, hi, sig, flag, pad) ==
    LET f0 == FileWrite(EmptyFile, 0, [i \in 1..(position_PE_location + 4) |-> 0])
        f1 == IF lo THEN PutHeader(f0, lfanew % 65536, sig, flag, pad) ELSE f0
        f2 == IF hi THEN PutHeader(f1, lfanew, sig, flag, pad) ELSE f1
        f3 == FileWrite(f2, position_PE_location, LE(lfanew, 4))
        f4 == FileWrite(f3, 0, LE(mz, 2))
    IN f4

\* Values of the 32-bit field at 0x3C: inside the DOS header so that the flag
\* byte is a byte of the field itself (0x26, 0x27), the usual places (0x40,
\* 0x80), and one that does not fit 16 bits (0x10080).
PeOffsets == {38, 39, 64, 128, 65664}

FlagBytes == 0..255

FlagSamples == {0, 32, 223, 255}

MzWords == {MZ, 19802}

SigWords == {PE, 17745}

\* Lengths a damaged image is cut to: inside each of the reads of the code.
Cuts(lfanew) ==
    LET h == lfanew % 65536
    IN {0, 1, 2, position_PE_location + 1, position_PE_location + 2,
        h + 1, h + 2, h + offset_LAA_from_PE}

\* Whole images: every value of the flag byte with the header at 0x80, and
\* the sample values with the header at each of the offsets.
WholeImages ==
    {Image(MZ, 128, TRUE, TRUE, PE, fb, 0) : fb \in FlagBytes}
    \cup {Image(MZ, off, TRUE, TRUE, PE, fb, pad) :
             off \in PeOffsets, fb \in FlagSamples, pad \in 0..MaxPad}

\* Images with a bad signature, a header at only one of the two places the
\* 32-bit and the 16-bit reading of the field name, or cut short.
DamagedImages ==
    UNION {LET whole == {Image(mz, off, lo, hi, sig, fb, 0) :
                            mz \in MzWords, lo \in BOOLEAN, hi \in BOOLEAN,
                            sig \in SigWords}
           IN whole \cup {Truncate(f, cut) : f \in whole, cut \in Cuts(off)} :
           off \in PeOffsets, fb \in FlagSamples}

\* Whole images whose flag byte is the low byte of the word at 0x3C (header at
\* 0x26), with a second header where that word points once the bit is flipped.
AliasImages ==
    {PutHeader(Image(MZ, 38, TRUE, TRUE, PE, fb, 0), 6, PE, fb, 0) :
        fb \in FlagSamples}

Images == WholeImages \cup DamagedImages \cup AliasImages

---------------------------------------------------------------------------
(* The library, called on a handle its caller opened *)

NoCall == [op |-> "none"]

\* The record of a call: what it was given (the file and the handle's position
\* before it) and what it produced (the result and the I/O it issued).
Called(op, r) ==
    [op |-> op, exc |-> r.exc, msg |-> r.msg,
     val |-> IF r.exc = "none" THEN r.val ELSE "raised",
     before |-> file, posBefore |-> fdobj.pos,
     seeks |-> r.c.seeks, reads |-> r.c.reads, writes |-> r.c.writes]

LibInit ==
    /\ file \in Images
    /\ fdobj \in [mode : {"rb", "r+b"}, pos : {0}]
    /\ last = NoCall
    /\ args = [set |-> FALSE, unset |-> FALSE]
    /\ pc = "library"
    /\ mainfd = [open |-> FALSE, mode |-> "rb", pos |-> 0]
    /\ flagbyte = 0
    /\ laaset = FALSE
    /\ opens = <<>>
    /\ io = [seeks |-> 0, reads |-> 0, writes |-> 0]
    /\ out = ""
    /\ exitcode = -1
    /\ file0 = file

\* The call of one library function: the file and the handle's position become
\* what the function left.
Call(op, r) ==
    /\ file' = r.c.file
    /\ fdobj' = [fdobj EXCEPT !.pos = r.c.pos]
    /\ last' = Called(op, r)
    /\ UNCHANGED clivars

CallGetLAAPosition ==
    Call("getLAAPosition", getLAAPosition(Ctx(file, fdobj.mode, fdobj.pos)))

CallGetLAAFlagByte ==
    Call("getLAAFlagByte", getLAAFlagByte(Ctx(file, fdobj.mode, fdobj.pos)))

CallGetLAAStatus ==
    Call("getLAAStatus", getLAAStatus(Ctx(file, fdobj.mode, fdobj.pos)))

CallToggleLAAStatus ==
    Call("toggleLAAStatus", toggleLAAStatus(Ctx(file, fdobj.mode, fdobj.pos)))

\* The caller moves the handle between calls.
CallerSeek ==
    /\ \E p \in 0..MaxSeek : fdobj' = [fdobj EXCEPT !.pos = p]
    /\ UNCHANGED <<file, last>>
    /\ UNCHANGED clivars

LibNext ==
    \/ CallGetLAAPosition
    \/ CallGetLAAFlagByte
    \/ CallGetLAAStatus
    \/ CallToggleLAAStatus
    \/ CallerSeek

LibSpec == LibInit /\ [][LibNext]_vars

---------------------------------------------------------------------------
(* The command line: the __main__ block, one action per statement group.   *)
(* The file, when it exists, is readable and writable by the user.         *)

MsgConflict == "You are attempting both to set and to unset the LAA flag for this executable - exiting with no changes"

MsgAlreadySet == "This executable is already Large Address Aware - exiting with no changes"

MsgAlreadyUnset == "This executable is not Large Address Aware - exiting with no changes"

MsgEnabled == "Large Address Awareness is now enabled for this executable"

MsgDisabled == "Large Address Awareness is now disabled for this executable"

MsgIs == "This executable is Large Address Aware"

MsgIsNot == "This executable is not Large Address Aware"

Init ==
    /\ file \in Images \cup {NoFile}
    /\ args \in [set : BOOLEAN, unset : BOOLEAN]
    /\ pc = "parse"
    /\ mainfd = [open |-> FALSE, mode |-> "rb", pos |-> 0]
    /\ flagbyte = 0
    /\ laaset = FALSE
    /\ opens = <<>>
    /\ io = [seeks |-> 0, reads |-> 0, writes |-> 0]
    /\ out = ""
    /\ exitcode = -1
    /\ file0 = file
    /\ fdobj = [mode |-> "rb", pos |-> 0]
    /\ last = NoCall

\* sys.exit(code) after print(msg).
Exit(msg, code) ==
    /\ out' = msg
    /\ exitcode' = code
    /\ pc' = "exit"

\* An exception nobody catches: the traceback, exit status 1.
Uncaught(exc) == Exit(exc, 1)

\* The I/O calls of one library call, added to the run's.
Issued(c) ==
    [seeks |-> io.seeks + c.seeks, reads |-> io.reads + c.reads,
     writes |-> io.writes + c.writes]

MainCtx == Ctx(file, mainfd.mode, mainfd.pos)

\* Lines 181-185 without the test for both flags.
MainParseNoConflict ==
    /\ pc = "parse"
    /\ pc' = "open"
    /\ UNCHANGED <<out, exitcode>>
    /\ UNCHANGED <<file, mainfd, flagbyte, laaset, opens, io, file0, args>>
    /\ UNCHANGED <<fdobj, last>>

\* Lines 181-185.
MainParse ==
    /\ pc = "parse"
    /\ IF args.set /\ args.unset
       THEN Exit(MsgConflict, 1)
       ELSE pc' = "open" /\ UNCHANGED <<out, exitcode>>
    /\ UNCHANGED <<file, mainfd, flagbyte, laaset, opens, io, file0, args>>
    /\ UNCHANGED <<fdobj, last>>

\* open(filename, mode, buffering=0)
Open(mode, next) ==
    /\ IF file.exists
       THEN /\ mainfd' = [open |-> TRUE, mode |-> mode, pos |-> 0]
            /\ opens' = Append(opens, mode)
            /\ pc' = next
            /\ UNCHANGED <<out, exitcode>>
       ELSE /\ Uncaught("FileNotFoundError")
            /\ UNCHANGED <<mainfd, opens>>
    /\ UNCHANGED <<file, flagbyte, laaset, io, file0, args>>
    /\ UNCHANGED <<fdobj, last>>

\* Line 187.
MainOpen == pc = "open" /\ Open("rb", "flagbyte")

\* A library call made by main on its handle: the handle's position, the file
\* and the I/O issued become what the call left; an exception ends the run.
MainCall(r) ==
    /\ mainfd' = [mainfd EXCEPT !.pos = r.c.pos]
    /\ io' = Issued(r.c)
    /\ file' = r.c.file
    /\ UNCHANGED <<opens, file0, args>>
    /\ UNCHANGED <<fdobj, last>>

\* Line 188.
GotFlagByte(r) ==
    /\ MainCall(r)
    /\ IF r.exc = "none"
       THEN /\ flagbyte' = r.val
            /\ pc' = "status"
            /\ UNCHANGED <<out, exitcode>>
       ELSE /\ Uncaught(r.exc)
            /\ UNCHANGED flagbyte
    /\ UNCHANGED laaset

MainGetFlagByte == pc = "flagbyte" /\ GotFlagByte(getLAAFlagByte(MainCtx))

\* Line 189.
GotStatus(r) ==
    /\ MainCall(r)
    /\ IF r.exc = "none"
       THEN /\ laaset' = r.val
            /\ pc' = "close"
            /\ UNCHANGED <<out, exitcode>>
       ELSE /\ Uncaught(r.exc)
            /\ UNCHANGED laaset
    /\ UNCHANGED flagbyte

MainGetStatus == pc = "status" /\ GotStatus(getLAAStatus(MainCtx))

\* Line 190.
MainClose ==
    /\ pc = "close"
    /\ mainfd' = [mainfd EXCEPT !.open = FALSE]
    /\ pc' = "decide"
    /\ UNCHANGED <<file, flagbyte, laaset, opens, io, out, exitcode, file0, args>>
    /\ UNCHANGED <<fdobj, last>>

\* The decision without the tests of laaset: a flag given means a toggle.
MainDecideNoStatusTest ==
    /\ pc = "decide"
    /\ IF args.set \/ args.unset
       THEN pc' = "reopen" /\ UNCHANGED <<out, exitcode>>
       ELSE Exit(IF laaset THEN MsgIs ELSE MsgIsNot, 0)
    /\ UNCHANGED <<file, mainfd, flagbyte, laaset, opens, io, file0, args>>
    /\ UNCHANGED <<fdobj, last>>

\* Lines 192-196, 201-206, 211-214: what to do with the status.
MainDecide ==
    /\ pc = "decide"
    /\ IF args.set
       THEN IF laaset
            THEN Exit(MsgAlreadySet, 1)
            ELSE pc' = "reopen" /\ UNCHANGED <<out, exitcode>>
       ELSE IF args.unset
            THEN IF ~laaset
                 THEN Exit(MsgAlreadyUnset, 1)
                 ELSE pc' = "reopen" /\ UNCHANGED <<out, exitcode>>
            ELSE Exit(IF laaset THEN MsgIs ELSE MsgIsNot, 0)
    /\ UNCHANGED <<file, mainfd, flagbyte, laaset, opens, io, file0, args>>
    /\ UNCHANGED <<fdobj, last>>

\* The second open made read-only, like the first.
MainReopenReadOnly == pc = "reopen" /\ Open("rb", "toggle")

\* Lines 197 and 207.
MainReopen == pc = "reopen" /\ Open("r+b", "toggle")

\* Lines 198 and 208.
Toggled(r) ==
    /\ MainCall(r)
    /\ IF r.exc = "none"
       THEN pc' = "done" /\ UNCHANGED <<out, exitcode>>
       ELSE Uncaught(r.exc)
    /\ UNCHANGED <<flagbyte, laaset>>

MainToggle == pc = "toggle" /\ Toggled(toggleLAAStatus(MainCtx))

\* Lines 199-200 and 209-210, then line 214.
MainDone ==
    /\ pc = "done"
    /\ mainfd' = [mainfd EXCEPT !.open = FALSE]
    /\ Exit(IF args.set THEN MsgEnabled ELSE MsgDisabled, 0)
    /\ UNCHANGED <<file, flagbyte, laaset, opens, io, file0, args>>
    /\ UNCHANGED <<fdobj, last>>

Next ==
    \/ MainParse
    \/ MainOpen
    \/ MainGetFlagByte
    \/ MainGetStatus
    \/ MainClose
    \/ MainDecide
    \/ MainReopen
    \/ MainToggle
    \/ MainDone

Spec == Init /\ [][Next]_vars

---------------------------------------------------------------------------
(* What the claims speak of, read off the file's bytes with the numbers of  *)
(* the file format: MZ = 0x5A4D at 0, the header offset word at 0x3C, PE =  *)
(* 0x4550 at the header offset, the flag byte 22 bytes further, mask 0x20.  *)

Has(f, p, n) == f.exists /\ p + n <= f.len

WordAt(f, p) == ByteAt(f, p) + 256 * ByteAt(f, p + 1)

\* The PE header offset as section 4.2 and section 6 give it: the word at 0x3C.
HeaderOffset(f) == WordAt(f, 60)

\* The PE header offset as section 3 gives it: 32 bits at 0x3C.
HeaderOffset32(f) == WordAt(f, 60) + 65536 * WordAt(f, 62)

FlagOffset(f) == HeaderOffset(f) + 22

FlagByteOf(f) == ByteAt(f, FlagOffset(f))

Bit5(b) == (b \div 32) % 2 = 1

ValidPE(f) ==
    /\ Has(f, 0, 2) /\ WordAt(f, 0) = 23117
    /\ Has(f, 60, 2)
    /\ Has(f, HeaderOffset(f), 2) /\ WordAt(f, HeaderOffset(f)) = 17744
    /\ Has(f, FlagOffset(f), 1)

\* f and g hold the same bytes everywhere but at offset p.
SameBut(f, g, p) ==
    /\ f.exists = g.exists
    /\ f.len = g.len
    /\ \A q \in ((DOMAIN f.nz) \cup (DOMAIN g.nz)) \ {p} : ByteAt(f, q) = ByteAt(g, q)

OnlySet == args.set /\ ~args.unset

OnlyUnset == args.unset /\ ~args.set

Returned(op) == last.op = op /\ last.exc = "none"

---------------------------------------------------------------------------
(* C1..C3: the command line *)

\* C1: on a valid PE file, --set with bit 0x20 clear, or --unset with it set,
\* ends with exit code 0 and with bit 0x20 of the byte at header offset + 22
\* in the requested state.
C1_RequestedState ==
    (/\ pc = "exit"
     /\ ValidPE(file0)
     /\ \/ OnlySet /\ ~Bit5(FlagByteOf(file0))
        \/ OnlyUnset /\ Bit5(FlagByteOf(file0)))
    => /\ exitcode = 0
       /\ Bit5(ByteAt(file, FlagOffset(file0))) = args.set

C1_Witness ==
    /\ pc = "exit" /\ ValidPE(file0) /\ OnlyUnset
    /\ FlagByteOf(file0) = 255
    /\ exitcode = 0 /\ ByteAt(file, FlagOffset(file0)) = 223

\* C2: on a valid PE file, --set with bit 0x20 already set, or --unset with it
\* already clear, exits with code 1, never opens the file read-write, issues
\* no write and leaves every byte of the file as it was.
C2_NoOpNoWrite ==
    (/\ ValidPE(file0)
     /\ \/ OnlySet /\ Bit5(FlagByteOf(file0))
        \/ OnlyUnset /\ ~Bit5(FlagByteOf(file0)))
    => /\ file = file0
       /\ io.writes = 0
       /\ \A i \in 1..Len(opens) : opens[i] = "rb"
       /\ pc \notin {"reopen", "toggle", "done"}
       /\ pc = "exit" => exitcode = 1

C2_Witness ==
    /\ pc = "exit" /\ ValidPE(file0) /\ OnlySet
    /\ FlagByteOf(file0) = 32
    /\ exitcode = 1 /\ out = MsgAlreadySet /\ opens = <<"rb">>

\* C3: with both --set and --unset the run exits with code 1 before the file
\* is opened in any mode: no open, read, seek or write ever happens and the
\* file is unchanged, whether it is a valid PE file, an invalid one or missing.
C3_ConflictTouchesNothing ==
    (args.set /\ args.unset)
    => /\ opens = <<>>
       /\ ~mainfd.open
       /\ io = [seeks |-> 0, reads |-> 0, writes |-> 0]
       /\ file = file0
       /\ pc \in {"parse", "exit"}
       /\ pc = "exit" => exitcode = 1

C3_Witness ==
    /\ pc = "exit" /\ args.set /\ args.unset /\ exitcode = 1
    /\ ValidPE(file0) /\ ~Bit5(FlagByteOf(file0))

---------------------------------------------------------------------------
(* C4..C10: the library *)

\* C4: when all three header reads return 2 bytes, getLAAPosition fails with
\* 'not a valid executable' if the word at 0 is not 0x5A4D, whatever the rest
\* holds; else fails with 'not a valid PE file' if the word at the header
\* offset is not 0x4550; else returns header offset + 22.
C4_LocateReference ==
    (/\ last.op = "getLAAPosition"
     /\ Has(last.before, 0, 2) /\ Has(last.before, 60, 2)
     /\ Has(last.before, HeaderOffset(last.before), 2))
    => IF WordAt(last.before, 0) # 23117
       THEN last.exc = "ENotExecutable" /\ last.msg = "not a valid executable"
       ELSE IF WordAt(last.before, HeaderOffset(last.before)) # 17744
       THEN last.exc = "ENotExecutable" /\ last.msg = "not a valid PE file"
       ELSE last.exc = "none" /\ last.val = HeaderOffset(last.before) + 22

\* A file with a good PE header and a bad MZ word is rejected as no executable.
C4_Witness ==
    /\ last.op = "getLAAPosition"
    /\ Has(last.before, FlagOffset(last.before), 1)
    /\ WordAt(last.before, HeaderOffset(last.before)) = 17744
    /\ WordAt(last.before, 0) # 23117
    /\ last.msg = "not a valid executable"

\* C5: on a valid PE file getLAAFlagByte returns the whole byte at header
\* offset + 22 and getLAAStatus returns TRUE exactly when its bit 0x20 is set,
\* whatever the other bits and wherever the handle stood before the call.
C5_ReadFlag ==
    /\ (last.op = "getLAAFlagByte" /\ ValidPE(last.before))
       => last.exc = "none" /\ last.val = FlagByteOf(last.before)
    /\ (last.op = "getLAAStatus" /\ ValidPE(last.before))
       => last.exc = "none" /\ last.val = Bit5(FlagByteOf(last.before))

\* Status of a byte with every bit but 0x20 set, asked with the handle left
\* past the header by an earlier call.
C5_Witness ==
    /\ Returned("getLAAStatus") /\ ValidPE(last.before)
    /\ FlagByteOf(last.before) = 223
    /\ last.posBefore > 2
    /\ last.val = FALSE

\* C6: a successful toggleLAAStatus changes exactly one bit of the file: bit
\* 0x20 of the byte at header offset + 22 is inverted, its other seven bits,
\* every other byte and the file's length are unchanged.
C6_OneBit ==
    Returned("toggleLAAStatus")
    => /\ ValidPE(last.before)
       /\ SameBut(file, last.before, FlagOffset(last.before))
       /\ ByteAt(file, FlagOffset(last.before)) =
             IF Bit5(FlagByteOf(last.before))
             THEN FlagByteOf(last.before) - 32
             ELSE FlagByteOf(last.before) + 32
       /\ last.writes = 1

C6_Witness ==
    /\ Returned("toggleLAAStatus")
    /\ FlagByteOf(last.before) = 223
    /\ ByteAt(file, FlagOffset(last.before)) = 255
    /\ file.len > FlagOffset(last.before) + 1

\* The flag byte is not a byte of the header offset word at 0x3C.
NoAlias(f) == FlagOffset(f) \notin {60, 61}

\* C7 as stated: on every valid PE file, two successful calls of
\* toggleLAAStatus in a row leave the file as it was before the first.
C7_TwiceRestores ==
    [][(/\ CallToggleLAAStatus
        /\ Returned("toggleLAAStatus")
        /\ ValidPE(last.before)
        /\ last'.exc = "none")
       => file' = last.before]_vars

\* C7 amended: on a valid PE file whose flag byte is not a byte of the header
\* offset word, a second toggleLAAStatus right after a successful one succeeds
\* and leaves the whole file as it was before the first; a successful single
\* call never leaves the file as it was.
C7_TwiceRestoresNoAlias ==
    [][CallToggleLAAStatus
       => /\ (/\ Returned("toggleLAAStatus")
               /\ ValidPE(last.before) /\ NoAlias(last.before))
             => (last'.exc = "none" /\ file' = last.before)
          /\ last'.exc = "none"
             => (file' # file /\ ByteAt(file', FlagOffset(file)) # FlagByteOf(file))]_vars

\* The file is back to what it was at the start after toggles.
C7_Witness ==
    /\ Returned("toggleLAAStatus")
    /\ ValidPE(last.before) /\ NoAlias(last.before)
    /\ file = file0
    /\ last.before # file0

\* C8: when a 2-byte read of getLAAPosition (at 0, at 0x3C, at the header
\* offset) comes back short, the call fails with a failure that is neither of
\* the two ENotExecutable failures, and returns no offset.
C8_ShortRead ==
    (/\ last.op = "getLAAPosition"
     /\ \/ ~Has(last.before, 0, 2)
        \/ /\ WordAt(last.before, 0) = 23117
           /\ \/ ~Has(last.before, 60, 2)
              \/ ~Has(last.before, HeaderOffset(last.before), 2))
    => /\ last.exc = "EChunkSize"
       /\ last.msg = "word expected"
       /\ last.val = "raised"

\* The header offset points at or past the end of the file.
C8_Witness ==
    /\ last.op = "getLAAPosition"
    /\ Has(last.before, 60, 2)
    /\ HeaderOffset(last.before) >= last.before.len
    /\ last.exc = "EChunkSize"

\* C9: the header offset getLAAPosition uses is the 32-bit value at 0x3C: the
\* PE signature is checked there and the offset returned is that value + 22.
C9_Offset32 ==
    (/\ last.op = "getLAAPosition"
     /\ Has(last.before, 0, 2) /\ WordAt(last.before, 0) = 23117
     /\ Has(last.before, 60, 4)
     /\ Has(last.before, HeaderOffset32(last.before), 2))
    => IF WordAt(last.before, HeaderOffset32(last.before)) # 17744
       THEN last.exc = "ENotExecutable" /\ last.msg = "not a valid PE file"
       ELSE last.exc = "none" /\ last.val = HeaderOffset32(last.before) + 22

\* C10: a toggleLAAStatus that fails has issued no write: the file's content
\* and length are what they were before the call.
C10_FailureWritesNothing ==
    (last.op = "toggleLAAStatus" /\ last.exc # "none")
    => /\ last.writes = 0
       /\ file = last.before

\* The flag byte lies at or past the end of a file with good signatures.
C10_Witness ==
    /\ last.op = "toggleLAAStatus"
    /\ last.exc = "EChunkSize" /\ last.msg = "byte expected"
    /\ file = last.before

====
